---- MODULE Spec2Model ----
(***************************************************************************)
(* container-image-distributor (cid): a model of src/main.go.              *)
(*                                                                         *)
(* A Go string is a sequence of one-character strings, so that the         *)
(* prefix, substring and index operations of package strings are computed  *)
(* and not assumed.  A Go map is a TLA+ function; the order in which a     *)
(* range statement visits its keys is not specified by the language, so    *)
(* every range over a map takes the order as a nondeterministic input.     *)
(***************************************************************************)
EXTENDS Integers, Sequences, FiniteSets, TLC

(***************************************************************************)
(* Package strings, as far as main.go uses it.  Indices are 0-based, as in *)
(* Go; -1 is "not found".                                                  *)
(***************************************************************************)

\* s[lo:hi] of Go: the characters at 0-based positions lo .. hi-1.
Slice(s, lo, hi) == SubSeq(s, lo + 1, hi)

HasPrefix(s, prefix) == Len(s) >= Len(prefix) /\ Slice(s, 0, Len(prefix)) = prefix

CutPrefix(s, prefix) ==
    IF HasPrefix(s, prefix)
    THEN [after |-> Slice(s, Len(prefix), Len(s)), found |-> TRUE]
    ELSE [after |-> s, found |-> FALSE]

RECURSIVE IndexFrom(_, _, _)
IndexFrom(s, substr, i) ==
    IF i + Len(substr) > Len(s) THEN -1
    ELSE IF Slice(s, i, i + Len(substr)) = substr THEN i
    ELSE IndexFrom(s, substr, i + 1)

Index(s, substr) == IndexFrom(s, substr, 0)

RECURSIVE LastIndexFrom(_, _, _)
LastIndexFrom(s, substr, i) ==
    IF i < 0 THEN -1
    ELSE IF Slice(s, i, i + Len(substr)) = substr THEN i
    ELSE LastIndexFrom(s, substr, i - 1)

LastIndex(s, substr) == LastIndexFrom(s, substr, Len(s) - Len(substr))

Contains(s, substr) == Index(s, substr) >= 0

\* strings.Replace(s, old, new, n): the first n non-overlapping occurrences
\* of old replaced by new (all of them when n < 0).  An empty old matches at
\* the start of the string and after each character.
RECURSIVE Replace(_, _, _, _)
Replace(s, old, new, n) ==
    IF n = 0 THEN s
    ELSE IF old = <<>>
    THEN new \o (IF s = <<>> THEN <<>>
                 ELSE <<Head(s)>> \o Replace(Tail(s), old, new, n - 1))
    ELSE LET i == Index(s, old)
         IN  IF i = -1 THEN s
             ELSE Slice(s, 0, i) \o new
                  \o Replace(Slice(s, i + Len(old), Len(s)), old, new, n - 1)

\* strings.Split(s, sep) for a non-empty sep.
RECURSIVE Split(_, _)
Split(s, sep) ==
    LET i == Index(s, sep)
    IN  IF i = -1 THEN <<s>>
        ELSE <<Slice(s, 0, i)>> \o Split(Slice(s, i + Len(sep), Len(s)), sep)

WhiteSpace == {" ", "\t", "\n", "\r"}

RECURSIVE TrimLeft(_)
TrimLeft(s) == IF s # <<>> /\ Head(s) \in WhiteSpace THEN TrimLeft(Tail(s)) ELSE s

RECURSIVE TrimRight(_)
TrimRight(s) ==
    IF s # <<>> /\ s[Len(s)] \in WhiteSpace THEN TrimRight(Slice(s, 0, Len(s) - 1)) ELSE s

TrimSpace(s) == TrimRight(TrimLeft(s))

\* The upper-case letters among the characters of StdinPool.
LowerChar(c) ==
    CASE c = "Y" -> "y"
      [] c = "N" -> "n"
      [] OTHER -> c

ToLower(s) == [i \in 1..Len(s) |-> LowerChar(s[i])]

\* bufio.Reader.ReadString(delim): the input up to and including the first
\* delim, or all of it when the input ends first (main drops the error).
ReadString(input, delim) ==
    LET i == Index(input, <<delim>>)
    IN  IF i = -1 THEN input ELSE Slice(input, 0, i + 1)

(***************************************************************************)
(* Structs and errors (main.go, 17-54).                                    *)
(***************************************************************************)

EmptyMap == [k \in {} |-> <<>>]

\* The zero value Config{}.
ZeroConfig == [Repositories |-> <<>>, DestinationMapping |-> EmptyMap]

\* Variant: the suffix is forgotten.
GetRegistryPathWithoutSuffix(r) == r.Registry

GetRegistryPath(r) ==
    IF Len(r.Suffix) = 0 THEN r.Registry ELSE r.Registry \o <<"/">> \o r.Suffix

NoError == "nil"
RepositoryNotFoundForDestinationError == "RepositoryNotFoundForDestinationError"
RepositoryNotFoundForSourceError == "RepositoryNotFoundForSourceError"

(***************************************************************************)
(* Image destination logic (main.go, 148-206).  `order` is the order in    *)
(* which the Go runtime happens to enumerate the keys of a map: a sequence *)
(* of keys, of which a range over `mapping` visits those that are keys of  *)
(* mapping, in that order.                                                 *)
(***************************************************************************)

RangeOrder(mapping, order) == SelectSeq(order, LAMBDA k : k \in DOMAIN mapping)

\* Variant: the loop goes on after a substitution, so that a later key is
\* applied to the result of an earlier one.
RECURSIVE ApplyMappingLoopNoReturn(_, _, _)
ApplyMappingLoopNoReturn(path, mapping, keys) ==
    IF keys = <<>> THEN path
    ELSE IF Contains(path, Head(keys))
    THEN ApplyMappingLoopNoReturn(
             Replace(path, Head(keys), mapping[Head(keys)], 1), mapping, Tail(keys))
    ELSE ApplyMappingLoopNoReturn(path, mapping, Tail(keys))

RECURSIVE ApplyMappingLoop(_, _, _)
ApplyMappingLoop(path, mapping, keys) ==
    IF keys = <<>> THEN path
    ELSE IF Contains(path, Head(keys))
    THEN Replace(path, Head(keys), mapping[Head(keys)], 1)
    ELSE ApplyMappingLoop(path, mapping, Tail(keys))

ApplyDestinationMapping(path, mapping, order) ==
    ApplyMappingLoop(path, mapping, RangeOrder(mapping, order))

\* Variant: the first colon is taken instead of the last.
OverrideTagFirstColon(tag, image) ==
    LET i == Index(image, <<":">>)
    IN  IF i # -1 /\ Index(Slice(image, i, Len(image)), <<"/">>) = -1
        THEN Slice(image, 0, i) \o <<":">> \o tag
        ELSE image \o <<":">> \o tag

OverrideTag(tag, image) ==
    LET i == LastIndex(image, <<":">>)
    IN  IF i # -1 /\ Index(Slice(image, i, Len(image)), <<"/">>) = -1
        THEN Slice(image, 0, i) \o <<":">> \o tag
        ELSE image \o <<":">> \o tag

RECURSIVE HasAdditionalName(_, _, _)
HasAdditionalName(repo, destination, j) ==
    IF j > Len(repo.AdditionalNames) THEN FALSE
    ELSE IF repo.AdditionalNames[j] = destination THEN TRUE
    ELSE HasAdditionalName(repo, destination, j + 1)

RECURSIVE GetDestinationLoop(_, _, _, _, _)
GetDestinationLoop(destination, imagePathWithoutRegistry, config, order, i) ==
    IF i > Len(config.Repositories)
    THEN [val |-> <<>>, err |-> RepositoryNotFoundForDestinationError]
    ELSE LET repo == config.Repositories[i]
         IN  IF repo.Name = destination \/ HasAdditionalName(repo, destination, 1)
             THEN [val |-> ApplyDestinationMapping(
                               GetRegistryPath(repo) \o <<"/">> \o imagePathWithoutRegistry,
                               repo.DestinationMapping, order),
                   err |-> NoError]
             ELSE GetDestinationLoop(destination, imagePathWithoutRegistry, config, order, i + 1)

GetDestination(destination, imagePathWithoutRegistry, config, order) ==
    IF HasPrefix(destination, <<"!">>)
    THEN [val |-> Replace(destination, <<"!">>, <<>>, 1), err |-> NoError]
    ELSE GetDestinationLoop(destination, imagePathWithoutRegistry, config, order, 1)

RECURSIVE GenerateLoop(_, _, _, _, _)
GenerateLoop(image, destination, config, order, i) ==
    IF i > Len(config.Repositories)
    THEN [val |-> <<>>, err |-> RepositoryNotFoundForSourceError]
    ELSE LET cut == CutPrefix(image, GetRegistryPath(config.Repositories[i]) \o <<"/">>)
         IN  IF cut.found
             THEN GetDestination(destination, cut.after, config, order)
             ELSE GenerateLoop(image, destination, config, order, i + 1)

\* Variant: an image without "/" is looked up like any other.
GenerateAlwaysLookingUp(image, destination, config, order) ==
    GenerateLoop(image, destination, config, order, 1)

GenerateDestinationPathFromSourcePathAndConfig(image, destination, config, order) ==
    IF Len(Split(image, <<"/">>)) < 2
    THEN GetDestination(destination, image, config, order)
    ELSE GenerateLoop(image, destination, config, order, 1)

(***************************************************************************)
(* The inputs of a run: the command line, the config.json beside the       *)
(* executable, the line typed at the prompt, and the exit status of each   *)
(* container tool command.                                                 *)
(***************************************************************************)

\* The longest repository list of a config.json that is explored.
MaxRepos == 2

RepoA ==
    [Name |-> <<"s">>, AdditionalNames |-> <<>>,
     Registry |-> <<"r">>, Suffix |-> <<>>,
     DestinationMapping |-> EmptyMap]

RepoB ==
    [Name |-> <<"t">>, AdditionalNames |-> << <<"u">>, <<"s">> >>,
     Registry |-> <<"r">>, Suffix |-> <<"a">>,
     DestinationMapping |-> (<<"b">> :> <<"c", "/", "b">>)]

RepoC ==
    [Name |-> <<"t">>, AdditionalNames |-> <<>>,
     Registry |-> <<"q", ":", "5">>, Suffix |-> <<>>,
     DestinationMapping |-> (<<"a">> :> <<"d">>) @@ (<<"b">> :> <<"e">>)]

RepoPool == {RepoA, RepoB, RepoC}

GlobalMappingPool ==
    { EmptyMap,
      (<<"1">> :> <<"9">>),
      (<<>> :> <<"p", "/">>),
      (<<"a">> :> <<"d">>) @@ (<<"b">> :> <<"c", "/", "b">>) }

RepoLists == UNION {[1..n -> RepoPool] : n \in 0..MaxRepos}

ConfigFiles ==
    {[Repositories |-> rs, DestinationMapping |-> m] :
        rs \in RepoLists, m \in GlobalMappingPool}

\* Every key of every map above; a range order is a permutation of them.
KeyPool == {<<"a">>, <<"b">>, <<"1">>, <<>>}

RangeOrders ==
    {o \in [1..Cardinality(KeyPool) -> KeyPool] :
        \A i, j \in DOMAIN o : i # j => o[i] # o[j]}

ContainerToolPool == {<<"d", "o", "c", "k", "e", "r">>, <<>>}

SourceImagePool ==
    { <<"r", "/", "a", "/", "b", ":", "1">>,
      <<"q", ":", "5", "/", "b", ":", "1">>,
      <<"b">>,
      <<"x", "/", "b", ":", "1">>,
      <<>> }

DestinationPool ==
    { <<"s">>, <<"u">>, <<"t">>, <<"z">>, <<"!", "q", ":", "5", "/", "c">>, <<>> }

OverrideTagPool == { <<>>, <<"1">> }

StdinPool ==
    { <<"y", "\n">>,
      <<" ", "Y", " ", "\n">>,
      <<"n", "\n">>,
      <<"\n", "y", "\n">>,
      <<>> }

(***************************************************************************)
(* The state of a run of main (main.go, 56-144).                           *)
(***************************************************************************)

VARIABLES
    containerTool,      \* flag -container-tool
    sourceImage,        \* flag -image
    destination,        \* flag -destination-repository
    overrideTag,        \* flag -override-tag
    force,              \* flag -force
    config,             \* what LoadConfig returned
    destinationImage,   \* main's local destinationImage
    generated,          \* destinationImage as assigned at line 101
    mapped,             \* destinationImage as assigned at line 107
    stdout,             \* the destination images printed by the prompt
    text,               \* the line read from standard input
    calls,              \* the container tool commands run, in order
    fatal,              \* what log.Fatal was called with ("" while running)
    pc,                 \* the statement main is at
    pc2,                \* a second run on the same inputs: its statement
    destinationImage2   \* a second run on the same inputs: its destinationImage

flags == <<containerTool, sourceImage, destination, overrideTag, force>>
run1 == <<config, destinationImage, generated, mapped, stdout, text, calls, fatal, pc>>
run2 == <<pc2, destinationImage2>>
vars == <<flags, run1, run2>>

Init ==
    /\ containerTool \in ContainerToolPool
    /\ sourceImage \in SourceImagePool
    /\ destination \in DestinationPool
    /\ overrideTag \in OverrideTagPool
    /\ force \in BOOLEAN
    /\ config = ZeroConfig
    /\ destinationImage = <<>>
    /\ generated = <<>>
    /\ mapped = <<>>
    /\ stdout = <<>>
    /\ text = <<>>
    /\ calls = <<>>
    /\ fatal = ""
    /\ pc = "flags"
    /\ pc2 = "generate"
    /\ destinationImage2 = <<>>

\* log.Fatal: the process exits.
Fatal(msg) == pc' = "exit" /\ fatal' = msg

\* main.go 82-92
CheckFlags ==
    /\ pc = "flags"
    /\ IF sourceImage = <<>> THEN Fatal("Must specify -image")
       ELSE IF containerTool = <<>> THEN Fatal("Must specify -container-tool")
       ELSE IF destination = <<>> THEN Fatal("Must specify -destination")
       ELSE pc' = "load" /\ UNCHANGED fatal
    /\ UNCHANGED <<flags, config, destinationImage, generated, mapped, stdout, text, calls, run2>>

\* main.go 95-98
LoadConfig ==
    /\ pc = "load"
    /\ \/ \E c \in ConfigFiles : config' = c /\ pc' = "generate" /\ UNCHANGED fatal
       \/ config' = ZeroConfig /\ Fatal("LoadConfig")
    /\ UNCHANGED <<flags, destinationImage, generated, mapped, stdout, text, calls, run2>>

\* Variant: the error of the derivation is dropped.
GenerateIgnoringError ==
    /\ pc = "generate"
    /\ \E order \in RangeOrders :
         LET r == GenerateDestinationPathFromSourcePathAndConfig(
                      sourceImage, destination, config, order)
         IN  /\ destinationImage' = r.val
             /\ generated' = r.val
             /\ pc' = "mapping"
    /\ UNCHANGED <<flags, config, mapped, stdout, text, calls, fatal, run2>>

\* main.go 101-104
Generate ==
    /\ pc = "generate"
    /\ \E order \in RangeOrders :
         LET r == GenerateDestinationPathFromSourcePathAndConfig(
                      sourceImage, destination, config, order)
         IN  /\ destinationImage' = r.val
             /\ generated' = r.val
             /\ IF r.err # NoError THEN Fatal(r.err)
                ELSE pc' = "mapping" /\ UNCHANGED fatal
    /\ UNCHANGED <<flags, config, mapped, stdout, text, calls, run2>>

\* main.go 107
GlobalMapping ==
    /\ pc = "mapping"
    /\ \E order \in RangeOrders :
         /\ destinationImage' =
                ApplyDestinationMapping(destinationImage, config.DestinationMapping, order)
         /\ mapped' = destinationImage'
    /\ pc' = "override"
    /\ UNCHANGED <<flags, config, generated, stdout, text, calls, fatal, run2>>

\* Variant: the global mapping is applied once more, after the tag override.
OverrideThenMapping ==
    /\ pc = "override"
    /\ \E order \in RangeOrders :
         destinationImage' =
             ApplyDestinationMapping(
                 IF overrideTag # <<>> THEN OverrideTag(overrideTag, destinationImage)
                 ELSE destinationImage,
                 config.DestinationMapping, order)
    /\ pc' = "confirm"
    /\ UNCHANGED <<flags, config, generated, mapped, stdout, text, calls, fatal, run2>>

\* main.go 110-112
Override ==
    /\ pc = "override"
    /\ destinationImage' =
           IF overrideTag # <<>> THEN OverrideTag(overrideTag, destinationImage)
           ELSE destinationImage
    /\ pc' = "confirm"
    /\ UNCHANGED <<flags, config, generated, mapped, stdout, text, calls, fatal, run2>>

\* Variant: only a refusal aborts.
UserDidNotRefuse(answer) == ToLower(TrimSpace(answer)) # <<"n">>

\* main.go 119
UserAgreed(answer) == ToLower(TrimSpace(answer)) = <<"y">>

\* main.go 115-122
Confirm ==
    /\ pc = "confirm"
    /\ IF ~force
       THEN \E input \in StdinPool :
              /\ stdout' = Append(stdout, destinationImage)
              /\ text' = ReadString(input, "\n")
              /\ IF ~UserAgreed(text') THEN Fatal("Push aborted by user.")
                 ELSE pc' = "pull" /\ UNCHANGED fatal
       ELSE pc' = "pull" /\ UNCHANGED <<stdout, text, fatal>>
    /\ UNCHANGED <<flags, config, destinationImage, generated, mapped, calls, run2>>

\* Variant: the error of the command is dropped.
CommandIgnoringError(args, ok, next) ==
    /\ calls' = Append(calls, [tool |-> containerTool, args |-> args, ok |-> ok])
    /\ pc' = next
    /\ UNCHANGED fatal

\* exec.Command(containerTool, args...).CombinedOutput(), main.go 210-227
Command(args, ok, next) ==
    /\ calls' = Append(calls, [tool |-> containerTool, args |-> args, ok |-> ok])
    /\ IF ~ok THEN Fatal("exit status 1") ELSE pc' = next /\ UNCHANGED fatal

\* main.go 124-129
Pull ==
    /\ pc = "pull"
    /\ \E ok \in BOOLEAN : Command(<<"pull", sourceImage>>, ok, "tag")
    /\ UNCHANGED <<flags, config, destinationImage, generated, mapped, stdout, text, run2>>

\* main.go 131-136
Tag ==
    /\ pc = "tag"
    /\ \E ok \in BOOLEAN : Command(<<"tag", sourceImage, destinationImage>>, ok, "push")
    /\ UNCHANGED <<flags, config, destinationImage, generated, mapped, stdout, text, run2>>

\* main.go 138-143
Push ==
    /\ pc = "push"
    /\ \E ok \in BOOLEAN : Command(<<"push", destinationImage>>, ok, "exit")
    /\ UNCHANGED <<flags, config, destinationImage, generated, mapped, stdout, text, run2>>

(***************************************************************************)
(* A second run of the program with the same command line and the same     *)
(* config.json, followed as far as its destinationImage: the assignments   *)
(* of main.go 101-112 again, with the map orders its own runtime picks.    *)
(***************************************************************************)

FlagErrors ==
    {"Must specify -image", "Must specify -container-tool", "Must specify -destination"}

DerivationErrors ==
    {RepositoryNotFoundForSourceError, RepositoryNotFoundForDestinationError}

\* main has its config.
AfterLoad == pc \notin {"flags", "load"} /\ fatal \notin FlagErrors \cup {"LoadConfig"}

\* main.go 101-104
Generate2 ==
    /\ AfterLoad
    /\ pc2 = "generate"
    /\ \E order \in RangeOrders :
         LET r == GenerateDestinationPathFromSourcePathAndConfig(
                      sourceImage, destination, config, order)
         IN  /\ destinationImage2' = r.val
             /\ pc2' = IF r.err # NoError THEN "exit" ELSE "mapping"
    /\ UNCHANGED <<flags, run1>>

\* main.go 107
GlobalMapping2 ==
    /\ pc2 = "mapping"
    /\ \E order \in RangeOrders :
         destinationImage2' =
             ApplyDestinationMapping(destinationImage2, config.DestinationMapping, order)
    /\ pc2' = "override"
    /\ UNCHANGED <<flags, run1>>

\* main.go 110-112
Override2 ==
    /\ pc2 = "override"
    /\ destinationImage2' =
           IF overrideTag # <<>> THEN OverrideTag(overrideTag, destinationImage2)
           ELSE destinationImage2
    /\ pc2' = "confirm"
    /\ UNCHANGED <<flags, run1>>

Next ==
    \/ CheckFlags
    \/ LoadConfig
    \/ Generate
    \/ GlobalMapping
    \/ Override
    \/ Confirm
    \/ Pull
    \/ Tag
    \/ Push

Spec == Init /\ [][Next]_vars

NextTwoRuns ==
    \/ Next
    \/ Generate2
    \/ GlobalMapping2
    \/ Override2

SpecTwoRuns == Init /\ [][NextTwoRuns]_vars

(***************************************************************************)
(* The vocabulary of the properties, stated on the characters of the       *)
(* strings and the entries of the config, independently of the code above. *)
(***************************************************************************)

\* main has returned from GenerateDestinationPathFromSourcePathAndConfig.
AfterGenerate == AfterLoad /\ pc # "generate"

\* ... without an error, and has applied the global mapping.
AfterMapping == AfterGenerate /\ fatal \notin DerivationErrors /\ pc # "mapping"

\* ... and has overridden the tag, if asked to.
AfterOverride == AfterMapping /\ pc # "override"

\* ... and has passed the confirmation, one way or the other.
AfterConfirm == AfterOverride /\ pc # "confirm"

StartsWith(s, p) == \E n \in 0..Len(s) : SubSeq(s, 1, n) = p

EndsWith(s, p) == \E n \in 0..Len(s) : SubSeq(s, n + 1, Len(s)) = p

\* k occurs in s at (1-based) position i.
OccursAt(k, s, i) ==
    /\ i + Len(k) - 1 <= Len(s)
    /\ \A j \in 1..Len(k) : s[i + j - 1] = k[j]

Occurs(k, s) == \E i \in 1..(Len(s) + 1) : OccursAt(k, s, i)

FirstOccurrence(k, s) ==
    CHOOSE i \in 1..(Len(s) + 1) :
        OccursAt(k, s, i) /\ \A j \in 1..(i - 1) : ~OccursAt(k, s, j)

WithFirstReplaced(s, k, v) ==
    LET i == FirstOccurrence(k, s)
    IN  SubSeq(s, 1, i - 1) \o v \o SubSeq(s, i + Len(k), Len(s))

MatchingKeys(path, m) == {k \in DOMAIN m : Occurs(k, path)}

\* What one substitution from the map m may make of path.
MappingResults(path, m) ==
    IF MatchingKeys(path, m) = {} THEN {path}
    ELSE {WithFirstReplaced(path, k, m[k]) : k \in MatchingKeys(path, m)}

Positions(s, c) == {i \in 1..Len(s) : s[i] = c}

Last(S) == CHOOSE i \in S : \A j \in S : j <= i

Least(S) == CHOOSE i \in S : \A j \in S : i <= j

\* The image has a final ":tag": a ":" with no "/" after the last one.
HasTag(image) ==
    /\ Positions(image, ":") # {}
    /\ \A j \in Positions(image, "/") : j < Last(Positions(image, ":"))

WithTag(image, tag) ==
    IF HasTag(image)
    THEN SubSeq(image, 1, Last(Positions(image, ":")) - 1) \o <<":">> \o tag
    ELSE image \o <<":">> \o tag

RegistryPathOf(r) ==
    IF r.Suffix = <<>> THEN r.Registry ELSE r.Registry \o <<"/">> \o r.Suffix

Repos == config.Repositories

\* The repositories whose registry path and "/" start the source image.
SourceRepos == {i \in DOMAIN Repos : StartsWith(sourceImage, RegistryPathOf(Repos[i]) \o <<"/">>)}

\* The repositories the destination selector names.
DestinationRepos ==
    {i \in DOMAIN Repos :
        \/ Repos[i].Name = destination
        \/ \E j \in DOMAIN Repos[i].AdditionalNames : Repos[i].AdditionalNames[j] = destination}

Bang == destination # <<>> /\ destination[1] = "!"

Slashless == Positions(sourceImage, "/") = {}

(***************************************************************************)
(* The properties.                                                         *)
(***************************************************************************)

\* C1: when some repository's registry path and "/" start the source image
\* and the selector (not starting with "!") names some repository, the
\* derivation returns, without error, the image with the prefix of the first
\* such source repository removed and the registry path and "/" of the first
\* repository the selector names put in front, after one application of that
\* destination repository's destinationMappings.
C1_DestinationFromConfig ==
    (AfterGenerate /\ SourceRepos # {} /\ ~Bang /\ DestinationRepos # {}) =>
        LET src == Repos[Least(SourceRepos)]
            dst == Repos[Least(DestinationRepos)]
            stripped == SubSeq(sourceImage, Len(RegistryPathOf(src)) + 2, Len(sourceImage))
        IN  /\ fatal \notin DerivationErrors
            /\ generated \in MappingResults(RegistryPathOf(dst) \o <<"/">> \o stripped,
                                            dst.DestinationMapping)

\* Two repositories match the source image and two are named by the
\* selector, so that the config order decides, and a mapping applies.
C1_Witness ==
    /\ AfterGenerate /\ ~Bang
    /\ Cardinality(SourceRepos) = 2 /\ Cardinality(DestinationRepos) = 2
    /\ Repos[1] # Repos[2]
    /\ fatal \notin DerivationErrors
    /\ MatchingKeys(generated, Repos[Least(DestinationRepos)].DestinationMapping) # {}

\* C2: when the selector starts with "!", the derivation succeeds for every
\* source image and every config, and returns the selector without its "!".
C2_BangBypassesConfig ==
    (AfterGenerate /\ Bang) =>
        /\ fatal \notin DerivationErrors
        /\ generated = Tail(destination)

\* C3: OverrideTag replaces what follows the last ":" by the tag when no "/"
\* follows that ":", and appends ":" and the tag otherwise; the text before
\* the tag separator is unchanged.
C3_OverrideTagReplacesFinalTag ==
    (AfterOverride /\ overrideTag # <<>>) =>
        /\ destinationImage = WithTag(mapped, overrideTag)
        /\ EndsWith(destinationImage, <<":">> \o overrideTag)
        /\ HasTag(mapped) =>
              Len(destinationImage) - Len(overrideTag) = Last(Positions(mapped, ":"))
        /\ ~HasTag(mapped) => StartsWith(destinationImage, mapped)

\* A registry port and a tag: the last colon differs from the first.
C3_Witness ==
    /\ AfterOverride /\ overrideTag # <<>>
    /\ HasTag(mapped)
    /\ Cardinality(Positions(mapped, ":")) = 2

C5_PullTagPushInOrder ==
    LET pipeline == << <<"pull", sourceImage>>,
                       <<"tag", sourceImage, destinationImage>>,
                       <<"push", destinationImage>> >>
    IN  /\ Len(calls) <= 3
        /\ \A i \in DOMAIN calls :
              /\ calls[i].args = pipeline[i]
              /\ calls[i].tool = containerTool
              /\ i < Len(calls) => calls[i].ok
        /\ (calls # <<>> /\ ~calls[Len(calls)].ok) =>
              (pc = "exit" /\ fatal = "exit status 1")
        /\ Len(calls) = 3 => calls[3].args[2] = calls[2].args[3]

\* A run that pulled, tagged and pushed.
C5_Witness == Len(calls) = 3 /\ calls[3].ok /\ pc = "exit" /\ fatal = ""

\* The line read at the prompt is a "y" or "Y" among white space only.
IsYes(line) ==
    \E i \in DOMAIN line :
        /\ line[i] \in {"y", "Y"}
        /\ \A j \in DOMAIN line : j # i => line[j] \in WhiteSpace

\* C6: without the force flag nothing is pulled, tagged or pushed before the
\* prompt has shown the destination image and the answer was "y" (trimmed,
\* in either case); any other answer aborts the run with no container tool
\* invocation.  With the force flag there is no prompt and the run proceeds.
C6_ConfirmationBeforeCommands ==
    /\ (~force /\ calls # <<>>) => (stdout = <<destinationImage>> /\ IsYes(text))
    /\ (~force /\ AfterConfirm /\ ~IsYes(text)) =>
           (pc = "exit" /\ fatal = "Push aborted by user." /\ calls = <<>>)
    /\ (~force /\ AfterConfirm) => stdout = <<destinationImage>>
    /\ force => (stdout = <<>> /\ fatal # "Push aborted by user.")

\* An answer that is "y" only after trimming and lowering was accepted.
C6_Witness ==
    /\ ~force /\ calls # <<>>
    /\ text = <<" ", "Y", " ", "\n">>

\* C7: the destination image prompted, tagged and pushed is the derived one
\* after the global destinationMappings and then the tag override (when the
\* override tag is not empty); the mapping never touches the override tag,
\* and an empty override tag leaves the mapped image as it is.
C7_MappingThenOverride ==
    AfterOverride =>
        /\ \E m \in MappingResults(generated, config.DestinationMapping) :
              destinationImage = IF overrideTag = <<>> THEN m ELSE WithTag(m, overrideTag)
        /\ overrideTag # <<>> => EndsWith(destinationImage, <<":">> \o overrideTag)
        /\ overrideTag = <<>> => destinationImage = mapped
        /\ \A i \in DOMAIN stdout : stdout[i] = destinationImage
        /\ \A i \in DOMAIN calls :
              /\ calls[i].args[1] = "tag" => calls[i].args[3] = destinationImage
              /\ calls[i].args[1] = "push" => calls[i].args[2] = destinationImage

\* The global mapping changed the derived image, its key occurs in the
\* override tag too, and the image was prompted, tagged and pushed.
C7_Witness ==
    /\ AfterOverride /\ overrideTag # <<>>
    /\ MatchingKeys(overrideTag, config.DestinationMapping) # {}
    /\ mapped # generated
    /\ stdout # <<>> /\ Len(calls) = 3

\* C8: ApplyDestinationMapping makes at most one substitution: the path
\* unchanged when no key occurs in it, and otherwise the path with the first
\* occurrence of exactly one matching key replaced by its value.
C8_AtMostOneSubstitution ==
    AfterMapping =>
        LET m == config.DestinationMapping
        IN  /\ MatchingKeys(generated, m) = {} => mapped = generated
            /\ MatchingKeys(generated, m) # {} =>
                  \E k \in MatchingKeys(generated, m) :
                      mapped = WithFirstReplaced(generated, k, m[k])

\* Two keys occur in the path, and a key still occurs after the substitution.
C8_Witness ==
    /\ AfterMapping
    /\ Cardinality(MatchingKeys(generated, config.DestinationMapping)) = 2
    /\ MatchingKeys(mapped, config.DestinationMapping) # {}
    /\ mapped # generated

\* C9: two runs with the same source image, selector, override tag and
\* config produce the same destination image.
C9_Deterministic ==
    (AfterOverride /\ pc2 = "confirm") => destinationImage2 = destinationImage

\* C10: a source image without "/" is not looked up among the repositories:
\* the source-not-found error is never raised for it, and the whole image is
\* the path put behind the destination repository's registry path.
C10_SlashlessImageIsNotLookedUp ==
    (AfterGenerate /\ Slashless) =>
        /\ fatal # RepositoryNotFoundForSourceError
        /\ (~Bang /\ DestinationRepos # {}) =>
              LET dst == Repos[Least(DestinationRepos)]
              IN  /\ fatal \notin DerivationErrors
                  /\ generated \in MappingResults(
                         RegistryPathOf(dst) \o <<"/">> \o sourceImage,
                         dst.DestinationMapping)

\* An image without "/" went through with a config none of whose
\* repositories matches it.
C10_Witness ==
    /\ AfterMapping /\ Slashless /\ ~Bang
    /\ Repos # <<>> /\ SourceRepos = {}
    /\ StartsWith(generated, RegistryPathOf(Repos[Least(DestinationRepos)]) \o <<"/">>)

====
